---- MODULE Spec2Model ----
(***************************************************************************)
(* State-machine model of the CoPER code base:                             *)
(*   - AMSGradOptimizer              (CoPER_ConvE/qa_cpg/utils/amsgrad.py) *)
(*   - ranking_and_hits              (CoPER_ConvE/qa_cpg/metrics.py)       *)
(*   - LFramework train / checkpoint (CoPER_MINERVA/src/learn_framework.py)*)
(*   - ContextualParameterGenerator, CPG_ConvE                             *)
(*                                   (CoPER_MINERVA/src/emb/fact_network.py)*)
(* Each component has its own variables and its own specification; the    *)
(* variables of the other components stay at their initial values.         *)
(***************************************************************************)
EXTENDS Integers, Sequences, FiniteSets, TLC

VARIABLES
    \* ---- AMSGradOptimizer ----
    hp,            \* constructor arguments [beta1, beta2] (rationals)
    beta1_power,   \* self._beta1_power
    beta2_power,   \* self._beta2_power
    var,           \* optimized variables: name -> tensor (fixed point, 1/Scale)
    m,             \* slot "m":     name -> tensor of rationals
    v,             \* slot "v":     name -> tensor of rationals
    v_hat,         \* slot "v_hat": name -> tensor of rationals
    pow_read,      \* name -> <<beta1_power, beta2_power>> read by the update op of
                   \* the running apply_gradients call, <<>> if not updated yet
    todo,          \* variables whose update op of the running call has not run
    last,          \* locals of the most recent _apply_*_shared call
    calls,         \* number of apply_gradients calls begun (the timestep t)
    steps,         \* number of finished apply_gradients calls
    \* ---- ranking_and_hits ----
    rk_pc,         \* "run" (loop head), "rank" (for loop over the batch),
                   \* "stopped" (loop left), "done" (returned)
    it_left,       \* batches the data iterator still holds
    delivered,     \* samples the iterator has delivered so far
    pending,       \* samples of the current batch not ranked yet
    count,         \* local count
    ranks,         \* local ranks
    hits,          \* local hits: level -> list (-> mean, after line 70)
    rk_raised,     \* exception leaving ranking_and_hits, "none" if none
    rk_result,     \* returned (mr, mrr, hits), <<>> before the return
    \* ---- LFramework ----
    tr_pc,         \* "idle", "epoch" (for-loop head), "batch" (mini-batch loop
                   \* head), "epoch_end", "done", "failed"
    args,          \* constructor arguments and the length of train_data
    start_epoch,   \* self.start_epoch
    epoch_id,      \* loop variable of run_train
    example_id,    \* loop variable of the mini-batch loop
    do_eval,       \* local do_eval: "unbound", "true" or "false"
    batch_size,    \* self.batch_size
    grad_accum,    \* examples whose gradients sit in .grad, not yet applied
    params,        \* the model's parameters (state_dict), as a version number
    opt_steps,     \* optim.step() calls of the current epoch
    ckpt,          \* file checkpoint-<e>.tar, per e
    model_best,    \* file model_best.tar
    best_file,     \* file best_dev_iteration.dat (-1: no such file)
    best_dev_metric,      \* local best_dev_metric
    dev_metrics_history,  \* local dev_metrics_history
    evaluated,     \* <<epoch, hits_at_1>> of every dev evaluation of this run
    trained,       \* epochs whose training loop this run_train entered
    loaded,        \* epoch_id of the checkpoint load_checkpoint read
                   \* (-1: not called, -2: called on a path that is no file)
    tr_exit,       \* how run_train ended: "none", "exhausted", "break", or the error
    \* ---- CPG_ConvE ----
    cpg_pc,        \* position in CPG_ConvE.__init__: "args", "static", "conv_gen",
                   \* "fc_gen", "built", "failed"
    cpg_args,      \* the args namespace
    cpg_conv_net,  \* self.cpg_conv_net (a Python value: None or a list)
    cpg_fc_net,    \* self.cpg_fc_net
    feat_dim,      \* self.feat_dim
    modules,       \* attribute name -> the sub-module assigned to it
    cpg_calls,     \* ContextualParameterGenerator(...) calls made so far
    cpg_error,     \* exception raised by __init__, "none" if none
    cpg_out,       \* result of the last generator forward
    \* ---- LFramework.forward ----
    fw_pc,         \* "loop" (for-loop head), "done" (returned), "failed" (raised)
    examples,      \* the examples argument
    fw_batch_size, \* self.batch_size during the call
    fw_example_id, \* example_id of the next iteration
    mini_batch,    \* the list last handed to self.predict
    pred_scores,   \* the list of score slices
    scores,        \* the returned tensor (dimension 0)
    fw_error       \* exception raised by forward, "none" if none

amsVars == <<hp, beta1_power, beta2_power, var, m, v, v_hat, pow_read, todo,
            last, calls, steps>>

rankVars == <<rk_pc, it_left, delivered, pending, count, ranks, hits, rk_raised,
             rk_result>>

trainVars == <<tr_pc, args, start_epoch, epoch_id, example_id, do_eval, batch_size,
              grad_accum, params, opt_steps, ckpt, model_best, best_file,
              best_dev_metric, dev_metrics_history, evaluated, trained, loaded,
              tr_exit>>

cpgVars == <<cpg_pc, cpg_args, cpg_conv_net, cpg_fc_net, feat_dim, modules,
            cpg_calls, cpg_error, cpg_out>>

fwVars == <<fw_pc, examples, fw_batch_size, fw_example_id, mini_batch, pred_scores,
           scores, fw_error>>

vars == <<amsVars, rankVars, trainVars, cpgVars, fwVars>>

(***************************************************************************)
(* Exact rational arithmetic: <<n, d>> with d > 0, in lowest terms.        *)
(***************************************************************************)
Abs(x) == IF x < 0 THEN -x ELSE x

RECURSIVE GCD(_, _)
GCD(a, b) == IF b = 0 THEN a ELSE GCD(b, a % b)

Norm(n, d) ==
    LET g == GCD(Abs(n), d) IN <<n \div g, d \div g>>

RInt(k)    == <<k, 1>>
RAdd(p, q) == Norm(p[1] * q[2] + q[1] * p[2], p[2] * q[2])
RSub(p, q) == Norm(p[1] * q[2] - q[1] * p[2], p[2] * q[2])
RMul(p, q) == Norm(p[1] * q[1], p[2] * q[2])
RLe(p, q)  == p[1] * q[2] <= q[1] * p[2]
RMax(p, q) == IF RLe(p, q) THEN q ELSE p

RECURSIVE RPow(_, _)
RPow(p, k) == IF k = 0 THEN RInt(1) ELSE RMul(p, RPow(p, k - 1))

(***************************************************************************)
(* Fixed-point arithmetic for the variable update (units of 1/Scale).      *)
(***************************************************************************)
Scale == 10 ^ 3

RECURSIVE SqrtSearch(_, _, _)
SqrtSearch(n, lo, hi) ==
    IF lo >= hi THEN lo
    ELSE LET mid == (lo + hi + 1) \div 2
         IN  IF mid * mid <= n THEN SqrtSearch(n, mid, hi)
                               ELSE SqrtSearch(n, lo, mid - 1)

ISqrt(n) == SqrtSearch(n, 0, IF n < 40000 THEN n ELSE 40000)

\* math_ops.sqrt of a non-negative rational, in units of 1/Scale
SqrtFx(r) == ISqrt((r[1] * Scale * Scale) \div r[2])

\* a rational in units of 1/Scale
ToFx(r) == (r[1] * Scale) \div r[2]

\* truncating division (sign-symmetric), as a float quotient rounded to the grid
QuotFx(a, b) == IF a < 0 THEN -((-a) \div b) ELSE a \div b

(***************************************************************************)
(* AMSGradOptimizer                                                        *)
(***************************************************************************)
MaxSteps == 2

\* "a": an embedding table, read through tf.gather (IndexedSlices gradients)
\*      or as a whole (dense gradients); "b": a bias, dense gradients only
VarNames == {"a", "b"}
GatheredVars == {"a"}
\* number of rows (slices along the first axis) of each optimized variable
Rows(x) == IF x = "a" THEN 2 ELSE 1
GradVals == {-1, 0, 1}

learning_rate == <<1, 2>>
epsilon       == <<1, 100>>
BetaChoices   == { [beta1 |-> <<1, 2>>, beta2 |-> <<3, 4>>] }

Zeros(n, z) == [i \in 1..n |-> z]

\* lr = lr_t * sqrt(1 - beta2_power) / (1 - beta1_power)
LrOf(b1p, b2p) ==
    LET den == RSub(RInt(1), b1p)
    IN  (learning_rate[1] * SqrtFx(RSub(RInt(1), b2p)) * den[2])
            \div (learning_rate[2] * den[1])

\* lr * m_t / (v_sqrt + epsilon_t), one element
Delta(lr, mt, vsq) ==
    QuotFx(lr * mt[1] * Scale, mt[2] * (SqrtFx(vsq) + ToFx(epsilon)))

\* state_ops.scatter_add(x, indices, values): duplicates accumulate
RECURSIVE ScatterAdd(_, _, _)
ScatterAdd(x, indices, values) ==
    IF indices = <<>> THEN x
    ELSE ScatterAdd([x EXCEPT ![Head(indices)] = RAdd(@, Head(values))],
                    Tail(indices), Tail(values))

\* the dense tensor an IndexedSlices gradient stands for
RECURSIVE Densify(_, _, _)
Densify(n, indices, values) ==
    IF indices = <<>> THEN Zeros(n, 0)
    ELSE LET rest == Densify(n, Tail(indices), Tail(values))
         IN  [rest EXCEPT ![Head(indices)] = @ + Head(values)]

VHatAssign_NoMax(vh, vt) == vt

\* v_hat.assign(tf.maximum(v_hat, v_t))
VHatAssign(vh, vt) == [i \in DOMAIN vh |-> RMax(vh[i], vt[i])]

\* the divisor tensor of the variable update: v_sqrt = sqrt(v_hat) of the
\* freshly assigned v_hat
VSqrtArg(vh_new, vt) == vh_new

\* state_ops.assign_sub(var, lr * m_t / (v_sqrt + epsilon_t))
VarUpdate(x, lr, mt, vsq) == [i \in DOMAIN x |-> x[i] - Delta(lr, mt[i], vsq[i])]

\* Result of _apply_dense_shared(grad, var) on the slots of one variable.
\* The slots m and v are assigned only the decayed value; m_t and v_t are
\* tensors computed from them and never written back.
DenseStep(st, grad, b1p, b2p) ==
    LET lr     == LrOf(b1p, b2p)
        omb1   == RSub(RInt(1), hp.beta1)
        omb2   == RSub(RInt(1), hp.beta2)
        m_slot == [i \in DOMAIN st.m |-> RMul(st.m[i], hp.beta1)]
        m_t    == [i \in DOMAIN st.m |-> RAdd(m_slot[i], RMul(RInt(grad[i]), omb1))]
        v_slot == [i \in DOMAIN st.v |-> RMul(st.v[i], hp.beta2)]
        v_t    == [i \in DOMAIN st.v |->
                      RAdd(v_slot[i], RMul(RInt(grad[i] * grad[i]), omb2))]
        vh     == VHatAssign(st.v_hat, v_t)
    IN  [var |-> VarUpdate(st.var, lr, m_t, VSqrtArg(vh, v_t)),
         m |-> m_slot, v |-> v_slot, v_hat |-> vh,
         lr |-> lr, m_t |-> m_t, v_t |-> v_t]

\* Result of _apply_sparse_shared(grad, var, indices, scatter_add).
\* scatter_add writes into the slot, so here m_t and v_t are the slots.
SparseStep(st, indices, values, b1p, b2p) ==
    LET lr     == LrOf(b1p, b2p)
        omb1   == RSub(RInt(1), hp.beta1)
        omb2   == RSub(RInt(1), hp.beta2)
        m_dec  == [i \in DOMAIN st.m |-> RMul(st.m[i], hp.beta1)]
        m_t    == ScatterAdd(m_dec, indices,
                     [k \in DOMAIN values |-> RMul(RInt(values[k]), omb1)])
        v_dec  == [i \in DOMAIN st.v |-> RMul(st.v[i], hp.beta2)]
        v_t    == ScatterAdd(v_dec, indices,
                     [k \in DOMAIN values |-> RMul(RInt(values[k] * values[k]), omb2)])
        vh     == VHatAssign(st.v_hat, v_t)
    IN  [var |-> VarUpdate(st.var, lr, m_t, VSqrtArg(vh, v_t)),
         m |-> m_t, v |-> v_t, v_hat |-> vh,
         lr |-> lr, m_t |-> m_t, v_t |-> v_t]

SlotsOf(x) == [var |-> var[x], m |-> m[x], v |-> v[x], v_hat |-> v_hat[x]]

Updated == {x \in VarNames : pow_read[x] # <<>>}

NoLast == [op |-> "none"]

\* __init__ followed by _create_slots: accumulators start at beta1 and beta2,
\* the slots m, v, v_hat at zero.
AMSInit ==
    /\ hp \in BetaChoices
    /\ beta1_power = hp.beta1
    /\ beta2_power = hp.beta2
    /\ var   = [x \in VarNames |-> Zeros(Rows(x), 0)]
    /\ m     = [x \in VarNames |-> Zeros(Rows(x), RInt(0))]
    /\ v     = [x \in VarNames |-> Zeros(Rows(x), RInt(0))]
    /\ v_hat = [x \in VarNames |-> Zeros(Rows(x), RInt(0))]
    /\ pow_read = [x \in VarNames |-> <<>>]
    /\ todo = {}
    /\ last = NoLast
    /\ calls = 0
    /\ steps = 0

Commit(x, r, op, grad) ==
    /\ var'   = [var   EXCEPT ![x] = r.var]
    /\ m'     = [m     EXCEPT ![x] = r.m]
    /\ v'     = [v     EXCEPT ![x] = r.v]
    /\ v_hat' = [v_hat EXCEPT ![x] = r.v_hat]
    /\ pow_read' = [pow_read EXCEPT ![x] = <<beta1_power, beta2_power>>]
    /\ todo' = todo \ {x}
    /\ last' = [op |-> op, name |-> x, grad |-> grad,
                lr |-> r.lr, m_t |-> r.m_t, v_t |-> r.v_t]
    /\ UNCHANGED <<hp, beta1_power, beta2_power, calls, steps>>

\* apply_gradients(grads_and_vars): one update op per variable that has a
\* gradient, then _finish; the update ops run in any order
ApplyGradients ==
    /\ calls < MaxSteps
    /\ todo = {} /\ Updated = {}
    /\ \E S \in SUBSET VarNames : S # {} /\ todo' = S
    /\ calls' = calls + 1
    /\ last' = [op |-> "begin"]
    /\ UNCHANGED <<hp, beta1_power, beta2_power, var, m, v, v_hat, pow_read, steps>>

\* the update op of one variable with a dense gradient
ApplyDense ==
    /\ \E x \in todo :
         \E grad \in [1..Rows(x) -> GradVals] :
            Commit(x, DenseStep(SlotsOf(x), grad, beta1_power, beta2_power),
                   "dense", grad)

\* strictly increasing index sequences over 1..n (distinct indices)
IndexSeqs(n) ==
    {s \in UNION {[1..k -> 1..n] : k \in 0..n} :
        \A i \in DOMAIN s : \A j \in DOMAIN s : i < j => s[i] < s[j]}

\* the update op of one variable with an IndexedSlices gradient
ApplySparse ==
    /\ \E x \in GatheredVars \cap todo :
         \E indices \in IndexSeqs(Rows(x)) :
            \E values \in [DOMAIN indices -> GradVals] :
               Commit(x, SparseStep(SlotsOf(x), indices, values,
                                    beta1_power, beta2_power),
                      "sparse", Densify(Rows(x), indices, values))

\* the new values of the power accumulators
FinishPowers(b1p, b2p) == <<RMul(b1p, hp.beta1), RMul(b2p, hp.beta2)>>

FinishReady_NoDeps == TRUE

\* ops.control_dependencies(update_ops): every update op of the call has run
FinishReady == todo = {}

\* _finish: update the power accumulators
Finish ==
    /\ Updated # {}
    /\ steps < calls
    /\ FinishReady
    /\ beta1_power' = FinishPowers(beta1_power, beta2_power)[1]
    /\ beta2_power' = FinishPowers(beta1_power, beta2_power)[2]
    /\ pow_read' = [x \in VarNames |-> <<>>]
    /\ steps' = steps + 1
    /\ last' = [op |-> "finish"]
    /\ UNCHANGED <<hp, var, m, v, v_hat, todo, calls>>

AMSNext == ApplyGradients \/ ApplyDense \/ ApplySparse \/ Finish

\* an optimizer that is constructed and never used
AMSIdle ==
    /\ hp = CHOOSE h \in BetaChoices : TRUE
    /\ beta1_power = hp.beta1
    /\ beta2_power = hp.beta2
    /\ var   = [x \in VarNames |-> Zeros(Rows(x), 0)]
    /\ m     = [x \in VarNames |-> Zeros(Rows(x), RInt(0))]
    /\ v     = [x \in VarNames |-> Zeros(Rows(x), RInt(0))]
    /\ v_hat = [x \in VarNames |-> Zeros(Rows(x), RInt(0))]
    /\ pow_read = [x \in VarNames |-> <<>>]
    /\ todo = {}
    /\ last = NoLast
    /\ calls = 0
    /\ steps = 0

(***************************************************************************)
(* ranking_and_hits                                                        *)
(***************************************************************************)
MaxBatches == 2

Entities   == 1..3
BatchSizes == {1, 2}
Scores     == {0, 1}
\* -np.inf: below every score
NegInf == 0 - 1
\* hits_to_compute
HitsLevels == <<1, 3, 5, 10, 20>>

\* np.nan, the mean of an empty list
NaN == <<0, 0>>

RECURSIVE RSum(_)
RSum(s) == IF s = <<>> THEN RInt(0) ELSE RAdd(Head(s), RSum(Tail(s)))

\* np.mean of a list of rationals
Mean(s) ==
    IF Len(s) = 0 THEN NaN ELSE RMul(RSum(s), <<1, Len(s)>>)

\* one row of the batch: target e2, scores pred, known answers e2_multi
Samples == [e2 : Entities, pred : [Entities -> Scores], e2_multi : SUBSET Entities]

\* lines 45-47: mask the other known answers, keep the target's score
Filtered(sample) ==
    [j \in Entities |->
        IF j = sample.e2 THEN sample.pred[j]
        ELSE IF j \in sample.e2_multi THEN NegInf
        ELSE sample.pred[j]]

\* np.argsort(-pred[i]): indices by descending score, ties by index
ArgSortDesc(row) ==
    LET before(j) == {k \in DOMAIN row :
                        row[k] > row[j] \/ (row[k] = row[j] /\ k < j)}
    IN  [p \in 1..Cardinality(DOMAIN row) |->
            CHOOSE j \in DOMAIN row : Cardinality(before(j)) = p - 1]

\* rank = int(np.where(pred1_args == e2[i])[0]) + 1
RankOf(sample) ==
    LET pred1_args == ArgSortDesc(Filtered(sample))
    IN  CHOOSE p \in DOMAIN pred1_args : pred1_args[p] = sample.e2

HitsAppend_OnlyHits(h, rank) ==
    [l \in DOMAIN h |->
        IF rank <= HitsLevels[l] THEN Append(h[l], RInt(1)) ELSE h[l]]

\* lines 54-58: one entry per level, 1.0 or 0.0
HitsAppend(h, rank) ==
    [l \in DOMAIN h |->
        IF rank <= HitsLevels[l] THEN Append(h[l], RInt(1))
                                 ELSE Append(h[l], RInt(0))]

RankInit ==
    /\ rk_pc = "run"
    /\ it_left \in 0..MaxBatches
    /\ delivered = 0
    /\ pending = 0
    /\ count = 0
    /\ ranks = <<>>
    /\ hits = [l \in DOMAIN HitsLevels |-> <<>>]
    /\ rk_raised = "none"
    /\ rk_result = <<>>

\* ranking_and_hits is never called
RankIdle ==
    /\ rk_pc = "idle"
    /\ it_left = 0
    /\ delivered = 0
    /\ pending = 0
    /\ count = 0
    /\ ranks = <<>>
    /\ hits = [l \in DOMAIN HitsLevels |-> <<>>]
    /\ rk_raised = "none"
    /\ rk_result = <<>>

\* session.run returns the next batch; count += e1.shape[0]
RunBatch ==
    /\ rk_pc = "run"
    /\ it_left > 0
    /\ \E n \in BatchSizes :
         /\ delivered' = delivered + n
         /\ count' = count + n
         /\ pending' = n
    /\ it_left' = it_left - 1
    /\ rk_pc' = "rank"
    /\ UNCHANGED <<ranks, hits, rk_raised, rk_result>>

\* one iteration of "for i in range(len(e1))"
RankSample ==
    /\ rk_pc = "rank"
    /\ \E sample \in Samples :
         LET rank == RankOf(sample)
         IN  /\ ranks' = Append(ranks, rank)
             /\ hits' = HitsAppend(hits, rank)
    /\ pending' = pending - 1
    /\ rk_pc' = IF pending' = 0 THEN "run" ELSE "rank"
    /\ UNCHANGED <<it_left, delivered, count, rk_raised, rk_result>>

\* what the except clause leaves: [pc, raised]
OnOutOfRange_Propagate == [pc |-> "done", raised |-> "OutOfRangeError"]

\* except tf.errors.OutOfRangeError: stopped = True
OnOutOfRange == [pc |-> "stopped", raised |-> "none"]

\* session.run on the exhausted iterator raises OutOfRangeError
RunOutOfRange ==
    /\ rk_pc = "run"
    /\ it_left = 0
    /\ rk_pc' = OnOutOfRange.pc
    /\ rk_raised' = OnOutOfRange.raised
    /\ UNCHANGED <<it_left, delivered, pending, count, ranks, hits, rk_result>>

\* lines 63-88: the means, and the return
Return ==
    /\ rk_pc = "stopped"
    /\ hits' = [l \in DOMAIN hits |-> Mean(hits[l])]
    /\ rk_result' = [mr  |-> Mean([k \in DOMAIN ranks |-> RInt(ranks[k])]),
                     mrr |-> Mean([k \in DOMAIN ranks |-> <<1, ranks[k]>>]),
                     hits |-> hits']
    /\ rk_pc' = "done"
    /\ UNCHANGED <<it_left, delivered, pending, count, ranks, rk_raised>>

RankNext == RunBatch \/ RankSample \/ RunOutOfRange \/ Return

(***************************************************************************)
(* LFramework: run_train, save_checkpoint, load_checkpoint                 *)
(***************************************************************************)
MaxEpochs == 4
MaxMetric == 2

\* batch_steps = 128 ("original batch size")
batch_steps == 128

\* <<len(train_data), train_batch_size>>
TrainShapes == { <<0, 2>>, <<1, 1>>, <<3, 2>>, <<4, 2>>,
                 <<128, 64>>, <<192, 64>>, <<200, 64>>, <<256, 128>> }
WaitChoices == 0..2
PeekChoices == 1..2
dev_batch_size == 2 * 2

\* -np.inf: below every metric
MinusInf == 0 - 1

NoFile == [exists |-> FALSE, state_dict |-> 0, epoch_id |-> 0]
\* the dictionary torch.save writes
CheckpointDict(sd, e) == [exists |-> TRUE, state_dict |-> sd, epoch_id |-> e]

TrainInit ==
    /\ tr_pc = "idle"
    /\ \E ne \in 1..MaxEpochs, nw \in WaitChoices, np \in PeekChoices,
          sh \in TrainShapes, ra \in BOOLEAN, inf \in BOOLEAN :
          args = [num_epochs |-> ne, num_wait_epochs |-> nw, num_peek_epochs |-> np,
                  n_train |-> sh[1], train_batch_size |-> sh[2],
                  run_analysis |-> ra, inference |-> inf, start_epoch |-> 0]
    /\ start_epoch = args.start_epoch
    /\ epoch_id = 0
    /\ example_id = 0
    /\ do_eval = "unbound"
    /\ batch_size = 0
    /\ grad_accum = 0
    /\ params = 0
    /\ opt_steps = 0
    /\ ckpt = [e \in 0..(MaxEpochs - 1) |-> NoFile]
    /\ model_best = NoFile
    /\ best_file = -1
    /\ best_dev_metric = MinusInf
    /\ dev_metrics_history = <<>>
    /\ evaluated = <<>>
    /\ trained = <<>>
    /\ loaded = -1
    /\ tr_exit = "none"

\* an LFramework that is never constructed
TrainIdle ==
    /\ tr_pc = "off"
    /\ args = [num_epochs |-> 0]
    /\ start_epoch = 0
    /\ epoch_id = 0
    /\ example_id = 0
    /\ do_eval = "unbound"
    /\ batch_size = 0
    /\ grad_accum = 0
    /\ params = 0
    /\ opt_steps = 0
    /\ ckpt = <<>>
    /\ model_best = NoFile
    /\ best_file = -1
    /\ best_dev_metric = MinusInf
    /\ dev_metrics_history = <<>>
    /\ evaluated = <<>>
    /\ trained = <<>>
    /\ loaded = -1
    /\ tr_exit = "none"

LoadedStartEpoch_SameEpoch(e) == e

\* self.start_epoch = checkpoint['epoch_id'] + 1
LoadedStartEpoch(e) == e + 1

\* load_checkpoint(input_file), input_file a checkpoint saved with epoch_id e
\* by an earlier run, or a path that is no file
LoadCheckpoint ==
    /\ tr_pc = "idle"
    /\ loaded = -1
    /\ \E isfile \in BOOLEAN, e \in 0..MaxEpochs :
         IF ~isfile
         THEN /\ loaded' = -2
              /\ UNCHANGED <<tr_pc, start_epoch, params, tr_exit>>
         ELSE /\ loaded' = e
              /\ params' = 100 * (e + 1)
              /\ IF args.inference
                 THEN UNCHANGED <<tr_pc, start_epoch, tr_exit>>
                 ELSE /\ start_epoch' = LoadedStartEpoch(e)
                      /\ IF start_epoch' <= args.num_epochs
                         THEN UNCHANGED <<tr_pc, tr_exit>>
                         ELSE tr_pc' = "failed" /\ tr_exit' = "AssertionError"
    /\ UNCHANGED <<args, epoch_id, example_id, do_eval, batch_size, grad_accum,
                   opt_steps, ckpt, model_best, best_file, best_dev_metric,
                   dev_metrics_history, evaluated, trained>>

\* run_train up to the for statement
RunTrain ==
    /\ tr_pc = "idle"
    /\ tr_pc' = "epoch"
    /\ best_dev_metric' = MinusInf
    /\ dev_metrics_history' = <<>>
    /\ epoch_id' = start_epoch
    /\ UNCHANGED <<args, start_epoch, example_id, do_eval, batch_size, grad_accum,
                   params, opt_steps, ckpt, model_best, best_file, evaluated,
                   trained, loaded, tr_exit>>

\* for epoch_id in range(self.start_epoch, self.num_epochs): exhausted
EpochsExhausted ==
    /\ tr_pc = "epoch"
    /\ epoch_id >= args.num_epochs
    /\ tr_pc' = "done"
    /\ tr_exit' = "exhausted"
    /\ UNCHANGED <<args, start_epoch, epoch_id, example_id, do_eval, batch_size,
                   grad_accum, params, opt_steps, ckpt, model_best, best_file,
                   best_dev_metric, dev_metrics_history, evaluated, trained, loaded>>

\* lines 82-114: the epoch up to the mini-batch loop; zero_grad discards what
\* is still accumulated
EpochBegin ==
    /\ tr_pc = "epoch"
    /\ epoch_id < args.num_epochs
    /\ trained' = Append(trained, epoch_id)
    /\ batch_size' = args.train_batch_size
    /\ grad_accum' = 0
    /\ opt_steps' = 0
    /\ example_id' = 0
    /\ tr_pc' = IF 0 < args.n_train THEN "batch" ELSE "epoch_end"
    /\ UNCHANGED <<args, start_epoch, epoch_id, do_eval, params, ckpt, model_best,
                   best_file, best_dev_metric, dev_metrics_history, evaluated,
                   loaded, tr_exit>>

\* len(train_data[example_id:example_id + self.batch_size])
MiniBatchLen(id) ==
    IF id + batch_size <= args.n_train THEN batch_size ELSE args.n_train - id

\* line 128: the condition under which the optimizer steps
StepDue(id) ==
    \/ (id > 0 /\ id % batch_steps = 0)
    \/ MiniBatchLen(id) < batch_size

\* the range() of the mini-batch loop moves on
NextBatch ==
    /\ example_id' = example_id + batch_size
    /\ tr_pc' = IF example_id' < args.n_train THEN "batch" ELSE "epoch_end"

\* one mini-batch: backward, then optim.step() and optim.zero_grad()
TrainBatchStep ==
    /\ tr_pc = "batch"
    /\ StepDue(example_id)
    /\ do_eval' = "true"
    /\ params' = params + 1
    /\ opt_steps' = opt_steps + 1
    /\ grad_accum' = 0
    /\ NextBatch
    /\ UNCHANGED <<args, start_epoch, epoch_id, batch_size, ckpt, model_best,
                   best_file, best_dev_metric, dev_metrics_history, evaluated,
                   trained, loaded, tr_exit>>

\* one mini-batch: backward only, the gradient stays accumulated
TrainBatchAccumulate ==
    /\ tr_pc = "batch"
    /\ ~StepDue(example_id)
    /\ do_eval' = "false"
    /\ grad_accum' = grad_accum + MiniBatchLen(example_id)
    /\ NextBatch
    /\ UNCHANGED <<args, start_epoch, epoch_id, batch_size, params, opt_steps, ckpt,
                   model_best, best_file, best_dev_metric, dev_metrics_history,
                   evaluated, trained, loaded, tr_exit>>

\* save_checkpoint(checkpoint_id, epoch_id, is_best=False): torch.save
SaveCheckpoint(files, id, e) == [files EXCEPT ![id] = CheckpointDict(params, e)]

\* line 165, left operand of "and"
PeekDue == args.run_analysis \/ (epoch_id >= 0 /\ epoch_id % args.num_peek_epochs = 0)

\* dev_metrics_history[-self.num_wait_epochs:]
LastWait(h) ==
    IF args.num_wait_epochs = 0 \/ args.num_wait_epochs >= Len(h) THEN h
    ELSE SubSeq(h, Len(h) - args.num_wait_epochs + 1, Len(h))

RECURSIVE SumSeq(_)
SumSeq(h) == IF h = <<>> THEN 0 ELSE Head(h) + SumSeq(Tail(h))

\* curr_metric < np.mean(h); the mean of an empty list is nan (never greater)
BelowMean(curr, h) == Len(h) > 0 /\ curr * Len(h) < SumSeq(h)

IsBetter_OrEqual(curr, best) == curr >= best

\* line 202: curr_metric > best_dev_metric
IsBetter(curr, best) == curr > best

\* line 212: the early-stopping condition
EarlyStop(curr) ==
    /\ epoch_id >= args.num_wait_epochs
    /\ BelowMean(curr, LastWait(dev_metrics_history))

\* run_analysis with no mini-batch: rewards is None at line 157
AnalysisFails == args.run_analysis /\ args.n_train = 0

\* lines 149-165: checkpoint saved, no dev evaluation this epoch
EpochEndNoEval ==
    /\ tr_pc = "epoch_end"
    /\ ~AnalysisFails
    /\ ~PeekDue \/ (do_eval = "false")
    /\ ckpt' = SaveCheckpoint(ckpt, epoch_id, epoch_id)
    /\ epoch_id' = epoch_id + 1
    /\ tr_pc' = "epoch"
    /\ UNCHANGED <<args, start_epoch, example_id, do_eval, batch_size, grad_accum,
                   params, opt_steps, model_best, best_file, best_dev_metric,
                   dev_metrics_history, evaluated, trained, loaded, tr_exit>>

\* lines 149-165 with an empty train_data: rewards is None (line 157), or
\* do_eval is read before any assignment (line 165)
EpochEndError ==
    /\ tr_pc = "epoch_end"
    /\ AnalysisFails \/ (PeekDue /\ do_eval = "unbound")
    /\ ckpt' = SaveCheckpoint(ckpt, epoch_id, epoch_id)
    /\ tr_pc' = "failed"
    /\ tr_exit' = IF AnalysisFails THEN "AttributeError" ELSE "UnboundLocalError"
    /\ UNCHANGED <<args, start_epoch, epoch_id, example_id, do_eval, batch_size,
                   grad_accum, params, opt_steps, model_best, best_file,
                   best_dev_metric, dev_metrics_history, evaluated, trained, loaded>>

\* lines 149-221: checkpoint saved, dev set evaluated with hits_at_1 = curr
EpochEndEval ==
    /\ tr_pc = "epoch_end"
    /\ ~AnalysisFails
    /\ PeekDue /\ do_eval = "true"
    /\ batch_size' = dev_batch_size
    /\ grad_accum' = 0
    /\ \E curr \in 0..MaxMetric :
         LET saved == SaveCheckpoint(ckpt, epoch_id, epoch_id)
         IN  /\ ckpt' = saved
             /\ evaluated' = Append(evaluated, <<epoch_id, curr>>)
             /\ IF IsBetter(curr, best_dev_metric)
                THEN \* save_checkpoint(..., is_best=True): copy the epoch's file
                     /\ model_best' = saved[epoch_id]
                     /\ best_dev_metric' = curr
                     /\ best_file' = epoch_id
                     /\ dev_metrics_history' = Append(dev_metrics_history, curr)
                     /\ epoch_id' = epoch_id + 1
                     /\ tr_pc' = "epoch"
                     /\ UNCHANGED tr_exit
                ELSE /\ UNCHANGED <<model_best, best_dev_metric, best_file>>
                     /\ IF EarlyStop(curr)
                        THEN /\ tr_pc' = "done"
                             /\ tr_exit' = "break"
                             /\ UNCHANGED <<dev_metrics_history, epoch_id>>
                        ELSE /\ dev_metrics_history' = Append(dev_metrics_history, curr)
                             /\ epoch_id' = epoch_id + 1
                             /\ tr_pc' = "epoch"
                             /\ UNCHANGED tr_exit
    /\ UNCHANGED <<args, start_epoch, example_id, do_eval, params, opt_steps,
                   trained, loaded>>

TrainNext ==
    \/ LoadCheckpoint \/ RunTrain \/ EpochsExhausted \/ EpochBegin
    \/ TrainBatchStep \/ TrainBatchAccumulate
    \/ EpochEndNoEval \/ EpochEndError \/ EpochEndEval

(***************************************************************************)
(* ContextualParameterGenerator and CPG_ConvE.__init__                     *)
(***************************************************************************)
MaxFwdBatch == 2

\* Python values: None, an int, a list of ints
PyNone     == [type |-> "None", val |-> <<>>]
PyInt(n)   == [type |-> "int",  val |-> <<n>>]
PyList(xs) == [type |-> "list", val |-> xs]

\* values of args.cpg_conv_net / args.cpg_fc_net (argparse gives a list)
NetChoices == { <<-1>>, <<>>, <<3>>, <<-1, 3>>, <<3, 2>> }
\* <<entity_dim, emb_2D_d1, emb_2D_d2>>
DimChoices == { <<4, 2, 2>>, <<6, 2, 3>>, <<6, 2, 2>> }

ModuleNames == {"conv1", "fc", "conv_filter", "conv_bias", "fc_weights", "fc_bias"}
GeneratorNames == {"conv_filter", "conv_bias", "fc_weights", "fc_bias"}

NoModule == [kind |-> "absent"]

RECURSIVE Product(_)
Product(xs) == IF xs = <<>> THEN 1 ELSE Head(xs) * Product(Tail(xs))

\* reduce(mul, output_shape, 1): iterates output_shape
ReduceMul(output_shape) ==
    IF output_shape.type = "list"
    THEN [ok |-> TRUE, val |-> Product(output_shape.val)]
    ELSE [ok |-> FALSE, val |-> 0]     \* TypeError: object is not iterable

\* the nn.Linear layers of self.projections, as <<in_features, out_features>>
RECURSIVE Projections(_, _, _)
Projections(layer_input, rest, flattened_output) ==
    IF rest = <<>> THEN << <<layer_input, flattened_output>> >>
    ELSE << <<layer_input, Head(rest)>> >>
            \o Projections(Head(rest), Tail(rest), flattened_output)

\* ContextualParameterGenerator.__init__
NewGenerator(network_structure, output_shape) ==
    LET r == ReduceMul(output_shape)
    IN  IF ~r.ok THEN [kind |-> "TypeError"]
        ELSE [kind |-> "ContextualParameterGenerator",
              network_structure |-> network_structure,
              output_shape |-> output_shape,
              flattened_output |-> r.val,
              linears |-> Projections(Head(network_structure),
                                      Tail(network_structure), r.val)]

\* ContextualParameterGenerator.forward on a batch: the shape of params
GeneratorOutShape(gen, batch) == <<batch>> \o gen.output_shape.val

\* lines 274-281: a list starting with -1 reads as None
ParseNet(net) ==
    IF Len(net) > 0 /\ net[1] = -1 THEN PyNone ELSE PyList(net)

CPGInit ==
    /\ cpg_pc = "args"
    /\ \E cn \in NetChoices, fn \in NetChoices, d \in DimChoices,
          rd \in {2, 4}, ch \in {1, 2}, k \in {1, 2} :
          cpg_args = [cpg_conv_net |-> cn, cpg_fc_net |-> fn,
                      entity_dim |-> d[1], emb_2D_d1 |-> d[2], emb_2D_d2 |-> d[3],
                      relation_dim |-> rd, num_out_channels |-> ch,
                      kernel_size |-> k]
    /\ cpg_conv_net = PyNone
    /\ cpg_fc_net = PyNone
    /\ feat_dim = 0
    /\ modules = [n \in ModuleNames |-> NoModule]
    /\ cpg_calls = <<>>
    /\ cpg_error = "none"
    /\ cpg_out = <<>>

\* CPG_ConvE is never constructed
CPGIdle ==
    /\ cpg_pc = "off"
    /\ cpg_args = <<>>
    /\ cpg_conv_net = PyNone
    /\ cpg_fc_net = PyNone
    /\ feat_dim = 0
    /\ modules = [n \in ModuleNames |-> NoModule]
    /\ cpg_calls = <<>>
    /\ cpg_error = "none"
    /\ cpg_out = <<>>

\* lines 264-285: the assert on the 2D shape, then the arguments
ParseArgs ==
    /\ cpg_pc = "args"
    /\ IF cpg_args.emb_2D_d1 * cpg_args.emb_2D_d2 = cpg_args.entity_dim
       THEN /\ cpg_conv_net' = ParseNet(cpg_args.cpg_conv_net)
            /\ cpg_fc_net' = ParseNet(cpg_args.cpg_fc_net)
            /\ cpg_pc' = "static"
            /\ UNCHANGED cpg_error
       ELSE /\ cpg_pc' = "failed"
            /\ cpg_error' = "AssertionError"
            /\ UNCHANGED <<cpg_conv_net, cpg_fc_net>>
    /\ UNCHANGED <<cpg_args, feat_dim, modules, cpg_calls, cpg_out>>

\* lines 300-307
FeatDim ==
    LET w_d   == cpg_args.kernel_size
        h_out == IF cpg_conv_net.type = "None" /\ cpg_fc_net.type = "None"
                 THEN 2 * cpg_args.emb_2D_d1 - w_d + 1
                 ELSE cpg_args.emb_2D_d1 - w_d + 1
        w_out == cpg_args.emb_2D_d2 - w_d + 1
    IN  cpg_args.num_out_channels * h_out * w_out

\* lines 288-309: the static layers conv1 and fc, and feat_dim
BuildStatic ==
    /\ cpg_pc = "static"
    /\ feat_dim' = FeatDim
    /\ modules' = [modules EXCEPT
          !["conv1"] = IF cpg_conv_net.type = "None"
                       THEN [kind |-> "Conv2d"] ELSE @,
          !["fc"]    = IF cpg_fc_net.type = "None"
                       THEN [kind |-> "Linear"] ELSE @]
    /\ cpg_pc' = "conv_gen"
    /\ UNCHANGED <<cpg_args, cpg_conv_net, cpg_fc_net, cpg_calls, cpg_error, cpg_out>>

\* the output_shape arguments CPG_ConvE.__init__ passes (lines 313, 319, 326, 332)
OutputShapeArg(name) ==
    CASE name = "conv_filter" -> PyList(<<cpg_args.num_out_channels, 1,
                                          cpg_args.kernel_size, cpg_args.kernel_size>>)
      [] name = "conv_bias"   -> PyInt(cpg_args.num_out_channels)
      [] name = "fc_weights"  -> PyList(<<feat_dim, cpg_args.entity_dim>>)
      [] name = "fc_bias"     -> PyList(<<cpg_args.entity_dim>>)

\* Assign the generators `first`, then `second`, built on `net`; the first
\* constructor that raises ends __init__.
BuildPair(first, second, net, next_pc) ==
    LET structure == <<cpg_args.relation_dim>> \o net.val
        g1 == NewGenerator(structure, OutputShapeArg(first))
        g2 == NewGenerator(structure, OutputShapeArg(second))
        call(n, g) == [name |-> n, output_shape |-> OutputShapeArg(n),
                       ok |-> g.kind # "TypeError"]
    IN  IF g1.kind = "TypeError"
        THEN /\ cpg_calls' = Append(cpg_calls, call(first, g1))
             /\ cpg_pc' = "failed" /\ cpg_error' = "TypeError"
             /\ UNCHANGED modules
        ELSE IF g2.kind = "TypeError"
        THEN /\ cpg_calls' = cpg_calls \o <<call(first, g1), call(second, g2)>>
             /\ modules' = [modules EXCEPT ![first] = g1]
             /\ cpg_pc' = "failed" /\ cpg_error' = "TypeError"
        ELSE /\ cpg_calls' = cpg_calls \o <<call(first, g1), call(second, g2)>>
             /\ modules' = [modules EXCEPT ![first] = g1, ![second] = g2]
             /\ cpg_pc' = next_pc
             /\ UNCHANGED cpg_error

\* lines 311-323: self.cpg_conv_net is not None
BuildConvGenerators ==
    /\ cpg_pc = "conv_gen"
    /\ cpg_conv_net.type # "None"
    /\ BuildPair("conv_filter", "conv_bias", cpg_conv_net, "fc_gen")
    /\ UNCHANGED <<cpg_args, cpg_conv_net, cpg_fc_net, feat_dim, cpg_out>>

\* line 311: self.cpg_conv_net is None
SkipConvGenerators ==
    /\ cpg_pc = "conv_gen"
    /\ cpg_conv_net.type = "None"
    /\ cpg_pc' = "fc_gen"
    /\ UNCHANGED <<cpg_args, cpg_conv_net, cpg_fc_net, feat_dim, modules, cpg_calls,
                   cpg_error, cpg_out>>

\* lines 324-336: self.cpg_fc_net is not None
BuildFcGenerators ==
    /\ cpg_pc = "fc_gen"
    /\ cpg_fc_net.type # "None"
    /\ BuildPair("fc_weights", "fc_bias", cpg_fc_net, "built")
    /\ UNCHANGED <<cpg_args, cpg_conv_net, cpg_fc_net, feat_dim, cpg_out>>

\* line 324: self.cpg_fc_net is None
SkipFcGenerators ==
    /\ cpg_pc = "fc_gen"
    /\ cpg_fc_net.type = "None"
    /\ cpg_pc' = "built"
    /\ UNCHANGED <<cpg_args, cpg_conv_net, cpg_fc_net, feat_dim, modules, cpg_calls,
                   cpg_error, cpg_out>>

\* a generator of the constructed model is called on a batch of relations
GeneratorForward ==
    /\ cpg_pc = "built"
    /\ \E n \in GeneratorNames, batch \in 1..MaxFwdBatch :
         /\ modules[n].kind = "ContextualParameterGenerator"
         /\ cpg_out' = [name |-> n, batch |-> batch,
                        flat |-> <<batch, modules[n].flattened_output>>,
                        shape |-> GeneratorOutShape(modules[n], batch)]
    /\ UNCHANGED <<cpg_pc, cpg_args, cpg_conv_net, cpg_fc_net, feat_dim, modules,
                   cpg_calls, cpg_error>>

CPGNext ==
    \/ ParseArgs \/ BuildStatic \/ BuildConvGenerators \/ SkipConvGenerators
    \/ BuildFcGenerators \/ SkipFcGenerators \/ GeneratorForward

(***************************************************************************)
(* LFramework.forward                                                      *)
(***************************************************************************)
MaxExamples == 4
MaxBatchSize == 3

\* the distinct (e1, e2, r) triples examples are drawn from
ExampleTriples == {"a", "b"}
\* (dummy_e, dummy_e, dummy_r)
dummy_example == "dummy"

ExampleLists == UNION { [1..n -> ExampleTriples] : n \in 0..MaxExamples }

\* the score self.predict gives an example
ScoreOf(e) == <<"score", e>>

\* self.predict(mini_batch): one score per element of the batch, in order
Predict(batch) == [i \in 1..Len(batch) |-> ScoreOf(batch[i])]

\* examples[lo : lo + n] with Python's clipping at the end of the list
Slice(xs, lo, n) ==
    IF lo >= Len(xs) THEN <<>>
    ELSE SubSeq(xs, lo + 1, IF lo + n <= Len(xs) THEN lo + n ELSE Len(xs))

\* make_full_batch: dummy examples appended up to batch_size
MakeFullBatch(batch, size) ==
    batch \o [i \in 1..(size - Len(batch)) |-> dummy_example]

\* pred_score[:mini_batch_size]
KeepScores(pred_score, mini_batch_size) == Slice(pred_score, 0, mini_batch_size)

\* torch.cat of a non-empty list along dimension 0
RECURSIVE Cat(_)
Cat(ts) == IF ts = <<>> THEN <<>> ELSE Head(ts) \o Cat(Tail(ts))

FwInit ==
    /\ fw_pc = "loop"
    /\ examples \in ExampleLists
    /\ fw_batch_size \in 1..MaxBatchSize
    /\ fw_example_id = 0
    /\ mini_batch = <<>>
    /\ pred_scores = <<>>
    /\ scores = <<>>
    /\ fw_error = "none"

\* forward is never called
FwIdle ==
    /\ fw_pc = "off"
    /\ examples = <<>>
    /\ fw_batch_size = 1
    /\ fw_example_id = 0
    /\ mini_batch = <<>>
    /\ pred_scores = <<>>
    /\ scores = <<>>
    /\ fw_error = "none"

\* one iteration on a full mini-batch
ForwardFullBatch ==
    /\ fw_pc = "loop"
    /\ fw_example_id < Len(examples)
    /\ LET batch == Slice(examples, fw_example_id, fw_batch_size)
           mini_batch_size == Len(batch)
       IN  /\ ~(mini_batch_size < fw_batch_size)
           /\ mini_batch' = batch
           /\ pred_scores' = Append(pred_scores,
                                    KeepScores(Predict(batch), mini_batch_size))
    /\ fw_example_id' = fw_example_id + fw_batch_size
    /\ UNCHANGED <<fw_pc, examples, fw_batch_size, scores, fw_error>>

\* one iteration on a partial mini-batch: padded, predicted, pad scores cut
ForwardPaddedBatch ==
    /\ fw_pc = "loop"
    /\ fw_example_id < Len(examples)
    /\ LET batch == Slice(examples, fw_example_id, fw_batch_size)
           mini_batch_size == Len(batch)
           full == MakeFullBatch(batch, fw_batch_size)
       IN  /\ mini_batch_size < fw_batch_size
           /\ mini_batch' = full
           /\ pred_scores' = Append(pred_scores,
                                    KeepScores(Predict(full), mini_batch_size))
    /\ fw_example_id' = fw_example_id + fw_batch_size
    /\ UNCHANGED <<fw_pc, examples, fw_batch_size, scores, fw_error>>

\* the loop is exhausted: scores = torch.cat(pred_scores); return scores
ForwardReturn ==
    /\ fw_pc = "loop"
    /\ fw_example_id >= Len(examples)
    /\ pred_scores # <<>>
    /\ scores' = Cat(pred_scores)
    /\ fw_pc' = "done"
    /\ UNCHANGED <<examples, fw_batch_size, fw_example_id, mini_batch, pred_scores,
                   fw_error>>

\* the loop never ran: torch.cat([]) raises RuntimeError (expected a
\* non-empty list of Tensors)
ForwardCatError ==
    /\ fw_pc = "loop"
    /\ fw_example_id >= Len(examples)
    /\ pred_scores = <<>>
    /\ fw_error' = "RuntimeError"
    /\ fw_pc' = "failed"
    /\ UNCHANGED <<examples, fw_batch_size, fw_example_id, mini_batch, pred_scores,
                   scores>>

FwNext ==
    \/ ForwardFullBatch \/ ForwardPaddedBatch \/ ForwardReturn \/ ForwardCatError

(***************************************************************************)
(* Specifications: one per component                                       *)
(***************************************************************************)
InitAMS == AMSInit /\ RankIdle /\ TrainIdle /\ CPGIdle /\ FwIdle
NextAMS ==
    \/ ApplyGradients /\ UNCHANGED <<rankVars, trainVars, cpgVars, fwVars>>
    \/ ApplyDense     /\ UNCHANGED <<rankVars, trainVars, cpgVars, fwVars>>
    \/ ApplySparse    /\ UNCHANGED <<rankVars, trainVars, cpgVars, fwVars>>
    \/ Finish         /\ UNCHANGED <<rankVars, trainVars, cpgVars, fwVars>>
SpecAMS == InitAMS /\ [][NextAMS]_vars

InitRank == RankInit /\ AMSIdle /\ TrainIdle /\ CPGIdle /\ FwIdle
NextRank ==
    \/ RunBatch      /\ UNCHANGED <<amsVars, trainVars, cpgVars, fwVars>>
    \/ RankSample    /\ UNCHANGED <<amsVars, trainVars, cpgVars, fwVars>>
    \/ RunOutOfRange /\ UNCHANGED <<amsVars, trainVars, cpgVars, fwVars>>
    \/ Return        /\ UNCHANGED <<amsVars, trainVars, cpgVars, fwVars>>
SpecRank == InitRank /\ [][NextRank]_vars

InitTrain == TrainInit /\ AMSIdle /\ RankIdle /\ CPGIdle /\ FwIdle
NextTrain ==
    \/ LoadCheckpoint       /\ UNCHANGED <<amsVars, rankVars, cpgVars, fwVars>>
    \/ RunTrain             /\ UNCHANGED <<amsVars, rankVars, cpgVars, fwVars>>
    \/ EpochsExhausted      /\ UNCHANGED <<amsVars, rankVars, cpgVars, fwVars>>
    \/ EpochBegin           /\ UNCHANGED <<amsVars, rankVars, cpgVars, fwVars>>
    \/ TrainBatchStep       /\ UNCHANGED <<amsVars, rankVars, cpgVars, fwVars>>
    \/ TrainBatchAccumulate /\ UNCHANGED <<amsVars, rankVars, cpgVars, fwVars>>
    \/ EpochEndNoEval       /\ UNCHANGED <<amsVars, rankVars, cpgVars, fwVars>>
    \/ EpochEndError        /\ UNCHANGED <<amsVars, rankVars, cpgVars, fwVars>>
    \/ EpochEndEval         /\ UNCHANGED <<amsVars, rankVars, cpgVars, fwVars>>
SpecTrain == InitTrain /\ [][NextTrain]_vars

InitCPG == CPGInit /\ AMSIdle /\ RankIdle /\ TrainIdle /\ FwIdle
NextCPG ==
    \/ ParseArgs           /\ UNCHANGED <<amsVars, rankVars, trainVars, fwVars>>
    \/ BuildStatic         /\ UNCHANGED <<amsVars, rankVars, trainVars, fwVars>>
    \/ BuildConvGenerators /\ UNCHANGED <<amsVars, rankVars, trainVars, fwVars>>
    \/ SkipConvGenerators  /\ UNCHANGED <<amsVars, rankVars, trainVars, fwVars>>
    \/ BuildFcGenerators   /\ UNCHANGED <<amsVars, rankVars, trainVars, fwVars>>
    \/ SkipFcGenerators    /\ UNCHANGED <<amsVars, rankVars, trainVars, fwVars>>
    \/ GeneratorForward    /\ UNCHANGED <<amsVars, rankVars, trainVars, fwVars>>
SpecCPG == InitCPG /\ [][NextCPG]_vars

InitFw == FwInit /\ AMSIdle /\ RankIdle /\ TrainIdle /\ CPGIdle
NextFw ==
    \/ ForwardFullBatch   /\ UNCHANGED <<amsVars, rankVars, trainVars, cpgVars>>
    \/ ForwardPaddedBatch /\ UNCHANGED <<amsVars, rankVars, trainVars, cpgVars>>
    \/ ForwardReturn      /\ UNCHANGED <<amsVars, rankVars, trainVars, cpgVars>>
    \/ ForwardCatError    /\ UNCHANGED <<amsVars, rankVars, trainVars, cpgVars>>
SpecFw == InitFw /\ [][NextFw]_vars

(***************************************************************************)
(* Claims about AMSGradOptimizer                                           *)
(***************************************************************************)
\* the update op of variable x runs in this step
UpdateOf(x) == pow_read[x] = <<>> /\ pow_read'[x] # <<>>

C2_DenseSlotsAccumulate ==
    [][\A x \in VarNames : \A i \in 1..Rows(x) :
          (UpdateOf(x) /\ last'.op = "dense") =>
             /\ m'[x][i] = RAdd(RMul(hp.beta1, m[x][i]),
                                RMul(RSub(RInt(1), hp.beta1), RInt(last'.grad[i])))
             /\ v'[x][i] = RAdd(RMul(hp.beta2, v[x][i]),
                                RMul(RSub(RInt(1), hp.beta2),
                                     RInt(last'.grad[i] * last'.grad[i])))]_vars

Stored(r) == [var |-> r.var, m |-> r.m, v |-> r.v, v_hat |-> r.v_hat]

\* C3: every sparse update leaves the variable and its slots m, v, v_hat as
\* the dense update with the densified gradient would have left them.
C3_SparseEqualsDense ==
    [][\A x \in VarNames :
          (UpdateOf(x) /\ last'.op = "sparse") =>
             [var |-> var'[x], m |-> m'[x], v |-> v'[x], v_hat |-> v_hat'[x]]
               = Stored(DenseStep(SlotsOf(x), last'.grad,
                                  beta1_power, beta2_power))]_vars

\* C4: the timestep advances once per apply_gradients call: the accumulators
\* start at beta1, beta2; during call t every update op reads beta1^t, beta2^t
\* (and builds lr_t from them); _finish multiplies them only after all update
\* ops of the call, so they hold beta^(t+1) between calls.
C4_TimestepOncePerCall ==
    LET b1t == RPow(hp.beta1, calls)
        b2t == RPow(hp.beta2, calls)
    IN  /\ beta1_power = RPow(hp.beta1, steps + 1)
        /\ beta2_power = RPow(hp.beta2, steps + 1)
        /\ steps \in {calls - 1, calls} \/ calls = 0
        /\ \A x \in Updated : pow_read[x] = <<b1t, b2t>>
        /\ last.op \in {"dense", "sparse"} => last.lr = LrOf(b1t, b2t)
        /\ (todo # {} \/ Updated # {}) => steps = calls - 1

\* both variables updated in the second call, before _finish
C4_Witness ==
    /\ calls = 2
    /\ steps = 1
    /\ Updated = VarNames
    /\ todo = {}
    /\ beta1_power = RMul(hp.beta1, hp.beta1)

(***************************************************************************)
(* Claims about ranking_and_hits                                           *)
(***************************************************************************)
\* C5: the loop takes batches until the iterator is exhausted, the
\* out-of-range error ends the loop and does not leave the function, and
\* every delivered sample is ranked exactly once: at every loop head and after
\* the loop len(ranks) = count = delivered samples and every hits level has
\* one entry per sample; the function then returns (mr, mrr, hits).
C5_EverySampleRankedOnce ==
    /\ rk_raised = "none"
    /\ rk_pc = "rank" => pending > 0 /\ Len(ranks) + pending = delivered
    /\ rk_pc \in {"run", "stopped"} =>
          /\ Len(ranks) = delivered
          /\ count = delivered
          /\ \A l \in DOMAIN HitsLevels : Len(hits[l]) = delivered
    /\ rk_pc \in {"stopped", "done"} => it_left = 0
    /\ rk_pc = "done" =>
          /\ Len(ranks) = delivered /\ count = delivered
          /\ DOMAIN rk_result = {"mr", "mrr", "hits"}
          /\ delivered > 0 =>
                rk_result.mr = Mean([k \in DOMAIN ranks |-> RInt(ranks[k])])
    /\ rk_pc # "done" => rk_result = <<>>

\* two batches of two samples were ranked, one of them not at rank 1, and the
\* function returned
C5_Witness ==
    /\ rk_pc = "done"
    /\ delivered = 4
    /\ Len(ranks) = 4
    /\ \E k \in DOMAIN ranks : ranks[k] > 1
    /\ rk_result.hits[1] # RInt(1)

(***************************************************************************)
(* Claims about LFramework                                                 *)
(***************************************************************************)
\* index in ev of the earliest evaluation with the highest metric
BestEvaluated(ev) ==
    CHOOSE k \in DOMAIN ev :
        \A j \in DOMAIN ev : ev[j][2] < ev[k][2] \/ (ev[j][2] = ev[k][2] /\ j >= k)

\* C6: once a dev evaluation has happened in run_train, model_best.tar is a
\* copy of checkpoint-<e>.tar and best_dev_iteration.dat holds e, where e is
\* the evaluated epoch with the highest hits_at_1 so far, the earliest on ties;
\* before the first evaluation neither file exists.
C6_BestIsBestOnDev ==
    IF evaluated = <<>>
    THEN ~model_best.exists /\ best_file = -1
    ELSE LET e == evaluated[BestEvaluated(evaluated)][1]
         IN  /\ model_best.exists
             /\ model_best = ckpt[e]
             /\ model_best.epoch_id = e
             /\ best_file = e
             /\ best_dev_metric = evaluated[BestEvaluated(evaluated)][2]

\* three evaluated epochs: the first two tie at the top, the third is lower
C6_Witness ==
    /\ Len(evaluated) = 3
    /\ evaluated[1][2] = evaluated[2][2]
    /\ evaluated[3][2] < evaluated[1][2]
    /\ best_file = evaluated[1][1]
    /\ model_best.exists

\* the epochs first..last in increasing order
EpochRange(lo, hi) ==
    [k \in 1..(IF hi >= lo THEN hi - lo + 1 ELSE 0) |-> lo + k - 1]

Resumed == loaded >= 0 /\ ~args.inference

\* C7 as claimed: after load_checkpoint read a checkpoint of epoch e in training
\* mode, run_train trains exactly the epochs e+1 .. num_epochs-1.
C7_ResumeTrainsAllRemaining ==
    (tr_pc = "done" /\ Resumed) =>
        trained = EpochRange(loaded + 1, args.num_epochs - 1)

\* C7 as amended: start_epoch becomes e + 1 in training mode (and the call
\* fails its assertion iff e + 1 > num_epochs) and stays unchanged in inference
\* mode; run_train then trains e+1, e+2, ... in increasing order without gaps
\* and never past num_epochs-1, and it trains all of them whenever the epoch
\* loop runs to its end (it may end earlier by the early-stopping break or by
\* an exception).
C7_ResumeTrainsFromNextEpoch ==
    /\ Resumed =>
          /\ start_epoch = loaded + 1
          /\ (tr_exit = "AssertionError") <=> (start_epoch > args.num_epochs)
          /\ \A k \in DOMAIN trained :
                trained[k] = loaded + k /\ trained[k] <= args.num_epochs - 1
          /\ tr_exit = "exhausted" =>
                trained = EpochRange(loaded + 1, args.num_epochs - 1)
          /\ tr_exit = "break" =>
                /\ trained # <<>>
                /\ Len(evaluated) >= 2
                /\ evaluated[Len(evaluated)][1] = trained[Len(trained)]
    /\ (loaded >= 0 /\ args.inference) => start_epoch = args.start_epoch
    /\ loaded < 0 => start_epoch = args.start_epoch

\* resumed after epoch 0 of 3 and trained epochs 1 and 2 to the end
C7_Witness ==
    /\ tr_pc = "done"
    /\ Resumed
    /\ loaded = 0
    /\ tr_exit = "exhausted"
    /\ trained = <<1, 2>>

\* C10: when the mini-batch loop of an epoch has ended on a non-empty
\* train_data, the optimizer has stepped after the last mini-batch: no
\* accumulated gradient is left unapplied.
C10_StepAtEndOfData ==
    (tr_pc = "epoch_end" /\ args.n_train > 0) =>
        (grad_accum = 0 /\ do_eval = "true")

\* a later mini-batch of this epoch makes the optimizer step
LaterStep(id) ==
    \E k \in 1..args.n_train :
        id + k * batch_size < args.n_train /\ StepDue(id + k * batch_size)

\* C11: every optimizer step of an epoch applies the gradients of exactly
\* batch_steps = 128 examples (those accumulated since the previous step, or
\* since the start of the epoch), the last step of the epoch aside, and
\* leaves no gradient accumulated.
C11_StepPerOriginalBatch ==
    [][(tr_pc = "batch" /\ StepDue(example_id)) =>
          /\ grad_accum' = 0
          /\ \/ grad_accum + MiniBatchLen(example_id) = batch_steps
             \/ ~LaterStep(example_id)]_vars

(***************************************************************************)
(* Claims about ContextualParameterGenerator and CPG_ConvE                 *)
(***************************************************************************)
\* C8: every ContextualParameterGenerator(...) call of CPG_ConvE.__init__ is
\* given output_shape as a list and succeeds; the generator's last linear
\* layer emits product(output_shape) values, and forward returns parameters
\* of shape [batch] + output_shape.
C8_GeneratorsConstructed ==
    /\ \A i \in DOMAIN cpg_calls :
          cpg_calls[i].output_shape.type = "list" /\ cpg_calls[i].ok
    /\ \A n \in GeneratorNames :
          modules[n].kind = "ContextualParameterGenerator" =>
             LET g == modules[n]
             IN  /\ g.linears[Len(g.linears)][2] = Product(g.output_shape.val)
                 /\ g.linears[1][1] = cpg_args.relation_dim
    /\ cpg_out # <<>> =>
          cpg_out.shape = <<cpg_out.batch>> \o OutputShapeArg(cpg_out.name).val

Exists(n) == modules[n].kind # "absent"

\* exactly the static layer, or exactly the generator pair
LayerChoice(net_arg, static, gen1, gen2) ==
    IF net_arg = <<-1>>
    THEN Exists(static) /\ ~Exists(gen1) /\ ~Exists(gen2)
    ELSE ~Exists(static) /\ Exists(gen1) /\ Exists(gen2)

\* C9: when __init__ has ended (the 2D-shape assert aside), an argument [-1]
\* has given the static layer and no generator, any other list (the empty
\* list too) the generator pair and no static layer, for conv and for fc.
C9_MinusOneMeansStatic ==
    (cpg_pc \in {"built", "failed"} /\ cpg_error # "AssertionError") =>
        /\ LayerChoice(cpg_args.cpg_conv_net, "conv1", "conv_filter", "conv_bias")
        /\ LayerChoice(cpg_args.cpg_fc_net, "fc", "fc_weights", "fc_bias")

(***************************************************************************)
(* Claims about LFramework.forward                                         *)
(***************************************************************************)
\* the scores of the examples, one each, in input order
ExpectedScores == [i \in 1..Len(examples) |-> ScoreOf(examples[i])]

\* C12: forward ends by returning one score per input example in input
\* order, for every examples list and batch size: the result has length
\* len(examples), holds no score of a dummy example, and scores no example
\* twice or not at all.
C12_OneScorePerExample ==
    (fw_pc \in {"done", "failed"}) =>
        /\ fw_error = "none"
        /\ Len(scores) = Len(examples)
        /\ scores = ExpectedScores

\* on a non-empty examples list the returned scores are the expected ones
ForwardNonEmptyCorrect ==
    (fw_pc \in {"done", "failed"} /\ examples # <<>>) =>
        (fw_error = "none" /\ scores = ExpectedScores)

====
